---- MODULE Spec2Model ----
(***************************************************************************)
(* The attention primitives and the hierarchical encoder of                *)
(* our_implementation/utils/model.py: SelfAttention (lazily created        *)
(* projections), AdditiveAttention and NRMSModel (encode_news,             *)
(* encode_user, forward).                                                  *)
(*                                                                         *)
(* A tensor is a record [ok, shape, data]: shape is the sequence of its    *)
(* sizes and data its elements in row-major (contiguous) order.  A tensor  *)
(* with ok = FALSE stands for a raised exception: every operation is       *)
(* strict in it, as a Python exception leaves the rest of the handler      *)
(* unexecuted.                                                             *)
(*                                                                         *)
(* Element values are computed in the prime field of P elements: sums and  *)
(* products (linear maps, matrix products, weighted sums) are exact ring   *)
(* arithmetic there; e^x and tanh x, which no finite domain holds, are     *)
(* the fixed functions Exp and Tanh below (Exp strictly positive).         *)
(* Dropout is the identity (evaluation mode, or probability 0).            *)
(***************************************************************************)
EXTENDS Integers, Sequences, FiniteSets, TLC

(* ------------------------------ bounds -------------------------------- *)
MaxBatch == 2
MaxLen == 2
MaxEmb == 2
MaxSeq == 2
MaxHist == 2
MaxCand == 2
VocabSize == 3

(* --------------------------- number domain ---------------------------- *)
\* The number of elements of the field standing for torch's float dtype.
P == 97

\* The multiplicative inverse of a # 0.
FInv(a) == CHOOSE b \in 1..(P - 1) : (a * b) % P = 1

\* np.sqrt(head_dim): the field element whose square is n.
FSqrt(n) == CHOOSE r \in 1..((P - 1) \div 2) : (r * r) % P = n % P

\* e^x: strictly positive; the values stay small enough that a sum of them
\* over one axis is never 0 in the field.
Exp(x) == 1 + (x % 8)

\* tanh x: odd, 0 at 0.
Tanh(x) == (x * x * x) % P

(* ------------------------------ tensors ------------------------------- *)
\* F applied to the value of v: a statement's result, computed once and
\* named for the statements after it.
Bind(v, F(_)) == CHOOSE y \in {F(a) : a \in {v}} : TRUE

RECURSIVE Numel(_)
Numel(s) == IF s = <<>> THEN 1 ELSE Head(s) * Numel(Tail(s))

RECURSIVE SumSeq(_)
SumSeq(s) == IF s = <<>> THEN 0 ELSE (Head(s) + SumSeq(Tail(s))) % P

RECURSIVE IntSum(_)
IntSum(s) == IF s = <<>> THEN 0 ELSE Head(s) + IntSum(Tail(s))

RECURSIVE IntProd(_)
IntProd(s) == IF s = <<>> THEN 1 ELSE Head(s) * IntProd(Tail(s))

\* Row-major position (0-based) of the multi-index idx (0-based) in shape s.
RECURSIVE FlatFrom(_, _, _, _)
FlatFrom(idx, s, k, acc) ==
    IF k > Len(s) THEN acc ELSE FlatFrom(idx, s, k + 1, acc * s[k] + idx[k])

Flat(idx, s) == FlatFrom(idx, s, 1, 0)

\* The multi-index of row-major position i (0-based) in shape s.
Unflat(i, s) ==
    [k \in 1..Len(s) |-> (i \div Numel(SubSeq(s, k + 1, Len(s)))) % s[k]] \o <<>>

\* A raised exception.
ErrT == [ok |-> FALSE, shape |-> <<>>, data |-> <<>>]

\* The tensor of shape s with the elements d, in row-major order.
Tensor(s, d) == [ok |-> TRUE, shape |-> s, data |-> d \o <<>>]

\* The tensor of shape s whose element at multi-index idx is F(idx).
Build(s0, F(_)) ==
    Bind(s0, LAMBDA s : Tensor(s, [p \in 1..Numel(s) |-> Bind(Unflat(p - 1, s), F)]))

At(t, idx) == t.data[Flat(idx, t.shape) + 1]

\* A dimension argument as torch reads it: negative counts from the end.
Dim(s, d) == IF d < 0 THEN Len(s) + d + 1 ELSE d + 1

\* Tensor.view(shape): the same storage read under another shape; an error
\* unless the element counts agree.
View(t0, s) ==
    Bind(t0, LAMBDA t :
        IF ~t.ok \/ Numel(s) # Numel(t.shape) THEN ErrT
        ELSE Tensor(s, t.data))

\* Tensor.view(a, b, -1): the last size is inferred; an error when a * b does
\* not divide the element count, and when a * b = 0 (the inferred size is
\* then ambiguous).
ViewInfer(t0, a, b) ==
    Bind(t0, LAMBDA t :
        IF ~t.ok THEN ErrT
        ELSE IF a * b = 0 THEN ErrT
        ELSE IF Numel(t.shape) % (a * b) # 0 THEN ErrT
        ELSE Tensor(<<a, b, Numel(t.shape) \div (a * b)>>, t.data))

Swap(s, i, j) ==
    [k \in 1..Len(s) |-> IF k = i THEN s[j] ELSE IF k = j THEN s[i] ELSE s[k]] \o <<>>

\* Tensor.transpose(d1, d2) (followed by contiguous() where the source reads
\* the result through view).
Transpose(t0, d1, d2) ==
    Bind(t0, LAMBDA t :
        IF ~t.ok THEN ErrT
        ELSE Bind(<<Dim(t.shape, d1), Dim(t.shape, d2)>>, LAMBDA ij :
                Build(Swap(t.shape, ij[1], ij[2]),
                      LAMBDA idx : At(t, Swap(idx, ij[1], ij[2])))))

\* torch.matmul / torch.bmm of [.., m, k] and [.., k, n] with the same
\* leading sizes.
MatMul(a0, b0) ==
    Bind(a0, LAMBDA a : Bind(b0, LAMBDA b :
        IF ~a.ok \/ ~b.ok THEN ErrT
        ELSE Bind(Len(a.shape), LAMBDA r :
                IF r # Len(b.shape) \/ r < 2 THEN ErrT
                ELSE IF SubSeq(a.shape, 1, r - 2) # SubSeq(b.shape, 1, r - 2)
                        \/ a.shape[r] # b.shape[r - 1] THEN ErrT
                ELSE Build([a.shape EXCEPT ![r] = b.shape[r]],
                           LAMBDA idx :
                             SumSeq([x \in 1..a.shape[r] |->
                                (At(a, [idx EXCEPT ![r] = x - 1])
                                 * At(b, [idx EXCEPT ![r - 1] = x - 1])) % P])))))

\* t / c for a scalar c # 0.
DivScalar(t0, c) ==
    Bind(t0, LAMBDA t :
        IF ~t.ok THEN ErrT
        ELSE Bind(FInv(c), LAMBDA ci :
                Tensor(t.shape, [p \in 1..Len(t.data) |-> (t.data[p] * ci) % P])))

\* An nn.Linear(in_features, out_features) object; id numbers the objects in
\* the order of their creation, and the (seeded) initial weights are a fixed
\* function of it.
NewLinear(n_in, n_out, bias, id) ==
    [in_features |-> n_in, out_features |-> n_out, bias |-> bias, id |-> id]

Weight(lin, o, e) == (1 + 5 * lin.id + 3 * o + 7 * e + o * e) % P

Bias(lin, o) == IF lin.bias THEN (2 + lin.id + 2 * o) % P ELSE 0

\* nn.Linear.__call__: acts on the last axis; an error unless its size is
\* in_features.
Linear(lin, x0) ==
    Bind(x0, LAMBDA x :
        IF ~x.ok THEN ErrT
        ELSE Bind(Len(x.shape), LAMBDA r :
                IF r = 0 THEN ErrT
                ELSE IF x.shape[r] # lin.in_features THEN ErrT
                ELSE Build([x.shape EXCEPT ![r] = lin.out_features],
                           LAMBDA idx :
                             (SumSeq([e \in 1..lin.in_features |->
                                 (Weight(lin, idx[r], e - 1)
                                  * At(x, [idx EXCEPT ![r] = e - 1])) % P])
                              + Bias(lin, idx[r])) % P)))

\* torch.softmax(t, dim) as fractions <<numerator, denominator>>: the
\* numerator is e^x of the element, the denominator the sum of e^x along dim.
SoftmaxFrac(t0, dim) ==
    Bind(t0, LAMBDA t :
        IF ~t.ok THEN ErrT
        ELSE Bind(Dim(t.shape, dim), LAMBDA k :
                Build(t.shape,
                      LAMBDA idx :
                        <<Exp(At(t, idx)),
                          IntSum([j \in 1..t.shape[k] |->
                                     Exp(At(t, [idx EXCEPT ![k] = j - 1]))])>>)))

\* torch.softmax(t, dim): the value of each fraction.
Softmax(t0, dim) ==
    Bind(SoftmaxFrac(t0, dim), LAMBDA f :
        IF ~f.ok THEN ErrT
        ELSE Tensor(f.shape, [p \in 1..Len(f.data) |->
                                (f.data[p][1] * FInv(f.data[p][2] % P)) % P]))

\* nn.Dropout in evaluation mode.
Dropout(t) == t

\* torch.tanh, elementwise.
TanhT(t0) ==
    Bind(t0, LAMBDA t :
        IF ~t.ok THEN ErrT
        ELSE Tensor(t.shape, [p \in 1..Len(t.data) |-> Tanh(t.data[p])]))

\* Tensor.squeeze(-1): drops the last axis when its size is 1.
SqueezeLast(t0) ==
    Bind(t0, LAMBDA t :
        IF ~t.ok THEN ErrT
        ELSE IF Len(t.shape) > 0 /\ t.shape[Len(t.shape)] = 1
             THEN Tensor(SubSeq(t.shape, 1, Len(t.shape) - 1), t.data)
             ELSE t)

\* Tensor.unsqueeze(-1), and unsqueeze(r) on a tensor of rank r: a last axis
\* of size 1.
UnsqueezeLast(t0) ==
    Bind(t0, LAMBDA t :
        IF ~t.ok THEN ErrT ELSE Tensor(Append(t.shape, 1), t.data))

\* x * w with w broadcast along the axes where its size is 1.
MulBroadcast(x0, w0) ==
    Bind(x0, LAMBDA x : Bind(w0, LAMBDA w :
        IF ~x.ok \/ ~w.ok THEN ErrT
        ELSE IF Len(x.shape) # Len(w.shape) THEN ErrT
        ELSE IF \E k \in 1..Len(x.shape) : w.shape[k] # x.shape[k] /\ w.shape[k] # 1
             THEN ErrT
        ELSE Build(x.shape,
                   LAMBDA idx :
                     (At(x, idx)
                      * At(w, [k \in 1..Len(idx) |->
                                  IF w.shape[k] = 1 THEN 0 ELSE idx[k]])) % P)))

\* torch.sum(t, dim): the axis dim is summed away.
SumDim(t0, dim) ==
    Bind(t0, LAMBDA t :
        IF ~t.ok THEN ErrT
        ELSE Bind(Dim(t.shape, dim), LAMBDA k :
                Build([i \in 1..(Len(t.shape) - 1) |->
                          IF i < k THEN t.shape[i] ELSE t.shape[i + 1]] \o <<>>,
                      LAMBDA idx :
                        SumSeq([j \in 1..t.shape[k] |->
                                  At(t, [i \in 1..Len(t.shape) |->
                                            IF i < k THEN idx[i]
                                            ELSE IF i = k THEN j - 1
                                            ELSE idx[i - 1]])]))))

\* A prefix of the handler: t unless an earlier statement raised.
After(prev, t) == IF prev.ok THEN t ELSE ErrT

(* --------------------------- SelfAttention ---------------------------- *)
\* Python's None for a projection that is not created yet.
None == [in_features |-> 0, out_features |-> 0, bias |-> FALSE, id |-> 0]

\* SelfAttention.__init__
SelfAttention(hp) ==
    [head_num |-> hp.head_num, head_dim |-> hp.head_dim,
     output_dim |-> hp.head_num * hp.head_dim,
     WQ |-> None, WK |-> None, WV |-> None]

\* LazyInit with the guard dropped: the projections are created at every call.
LazyInit_Always(self, Q_seq, nid) ==
    LET embedding_dim == Q_seq.shape[Len(Q_seq.shape)]
    IN  [self EXCEPT !.WQ = NewLinear(embedding_dim, self.output_dim, TRUE, nid),
                     !.WK = NewLinear(embedding_dim, self.output_dim, TRUE, nid + 1),
                     !.WV = NewLinear(embedding_dim, self.output_dim, TRUE, nid + 2)]

\* LazyInit that also re-creates the projections when the width changes.
LazyInit_Resize(self, Q_seq, nid) ==
    LET embedding_dim == Q_seq.shape[Len(Q_seq.shape)]
    IN  IF self.WQ = None \/ self.WQ.in_features # embedding_dim
        THEN [self EXCEPT !.WQ = NewLinear(embedding_dim, self.output_dim, TRUE, nid),
                          !.WK = NewLinear(embedding_dim, self.output_dim, TRUE, nid + 1),
                          !.WV = NewLinear(embedding_dim, self.output_dim, TRUE, nid + 2)]
        ELSE self

\* LazyInit with WK sized from output_dim instead of embedding_dim.
LazyInit_KeyWidth(self, Q_seq, nid) ==
    IF self.WQ = None
    THEN LET embedding_dim == Q_seq.shape[Len(Q_seq.shape)]
         IN  [self EXCEPT !.WQ = NewLinear(embedding_dim, self.output_dim, TRUE, nid),
                          !.WK = NewLinear(self.output_dim, self.output_dim, TRUE, nid + 1),
                          !.WV = NewLinear(embedding_dim, self.output_dim, TRUE, nid + 2)]
    ELSE self

\* The lazy initialization of the weights at the head of forward: nid is the
\* id of the next nn.Linear object to be created.
LazyInit(self, Q_seq, nid) ==
    IF self.WQ = None
    THEN LET embedding_dim == Q_seq.shape[Len(Q_seq.shape)]
         IN  [self EXCEPT !.WQ = NewLinear(embedding_dim, self.output_dim, TRUE, nid),
                          !.WK = NewLinear(embedding_dim, self.output_dim, TRUE, nid + 1),
                          !.WV = NewLinear(embedding_dim, self.output_dim, TRUE, nid + 2)]
    ELSE self

\* SplitHeads without the transpose.
SplitHeads_NoTranspose(self, t, N, L) ==
    View(t, <<N, L, self.head_num, self.head_dim>>)

\* view(N, L, head_num, head_dim).transpose(1, 2)
SplitHeads(self, t, N, L) ==
    Transpose(View(t, <<N, L, self.head_num, self.head_dim>>), 1, 2)

\* output.transpose(1, 2).contiguous().view(N, L, output_dim)
MergeHeads(self, t, N, L) ==
    View(Transpose(t, 1, 2), <<N, L, self.output_dim>>)

\* torch.softmax(scores, dim=-1) of SelfAttention.forward.
AttnSoftmaxDim == -1

\* SelfAttention.forward: the instance after the call, the returned tensor
\* (or the exception) and the intermediate tensors.
SelfAttentionForward(self0, nid, Q_seq, K_seq, V_seq) ==
    Bind(LazyInit(self0, Q_seq, nid), LAMBDA self :
    Bind(Linear(self.WQ, Q_seq), LAMBDA Q0 :
    Bind(After(Q0, Linear(self.WK, K_seq)), LAMBDA K0 :
    Bind(After(K0, Linear(self.WV, V_seq)), LAMBDA V0 :
    Bind(IF V0.ok /\ Len(Q0.shape) = 3 THEN Q0.shape ELSE <<0, 0, 0>>, LAMBDA NL :
    Bind(After(V0, IF Len(Q0.shape) = 3 THEN SplitHeads(self, Q0, NL[1], NL[2]) ELSE ErrT),
         LAMBDA Q :
    Bind(After(Q, SplitHeads(self, K0, NL[1], NL[2])), LAMBDA K :
    Bind(After(K, SplitHeads(self, V0, NL[1], NL[2])), LAMBDA V :
    Bind(After(V, DivScalar(MatMul(Q, Transpose(K, -2, -1)), FSqrt(self.head_dim))),
         LAMBDA scores :
    Bind(SoftmaxFrac(scores, AttnSoftmaxDim), LAMBDA frac :
    Bind(Dropout(Softmax(scores, AttnSoftmaxDim)), LAMBDA attn :
    Bind(MergeHeads(self, MatMul(attn, V), NL[1], NL[2]), LAMBDA output :
        [self |-> self, created |-> IF self0.WQ = None THEN 3 ELSE 0,
         out |-> output, Q |-> Q, K |-> K, V |-> V, frac |-> frac]))))))))))))

(* -------------------------- AdditiveAttention ------------------------- *)
\* AdditiveAttention.__init__: W and q are created at construction, with the
\* ids nid and nid + 1.
AdditiveAttention(hp, nid) ==
    [W |-> NewLinear(hp.head_num * hp.head_dim, hp.attention_hidden_dim, TRUE, nid),
     q |-> NewLinear(hp.attention_hidden_dim, 1, FALSE, nid + 1)]

\* torch.softmax(attn, dim=1) of AdditiveAttention.forward.
PoolSoftmaxDim == 1

\* AdditiveAttention.forward summing over the feature axis instead of the
\* length axis.
AdditiveAttentionForward_SumLast(self, x) ==
    Bind(TanhT(Linear(self.W, x)), LAMBDA a1 :
    Bind(SqueezeLast(Linear(self.q, a1)), LAMBDA a2 :
    Bind(SoftmaxFrac(a2, 1), LAMBDA frac :
    Bind(UnsqueezeLast(Softmax(a2, 1)), LAMBDA attn :
    Bind(Dropout(SumDim(MulBroadcast(x, attn), 2)), LAMBDA output :
        [out |-> output, frac |-> frac])))))

\* AdditiveAttention.forward: the returned tensor (or the exception) and the
\* softmax weights.
AdditiveAttentionForward(self, x) ==
    Bind(TanhT(Linear(self.W, x)), LAMBDA a1 :
    Bind(SqueezeLast(Linear(self.q, a1)), LAMBDA a2 :
    Bind(SoftmaxFrac(a2, PoolSoftmaxDim), LAMBDA frac :
    Bind(UnsqueezeLast(Softmax(a2, PoolSoftmaxDim)), LAMBDA attn :
    Bind(Dropout(SumDim(MulBroadcast(x, attn), 1)), LAMBDA output :
        [out |-> output, frac |-> frac])))))

(* ------------------------------ NRMSModel ----------------------------- *)
\* Row tok of the pretrained word_embeddings the model is constructed with.
WordEmbedding(tok, e) == (2 + 3 * tok + 5 * e + tok * tok) % P

\* NRMSModel.__init__: the two AdditiveAttention instances create their
\* nn.Linear objects at construction (ids 1..4); the SelfAttention instances
\* create none.
NRMSModel(hp, embedding_dim) ==
    [constructed |-> TRUE,
     embedding_dim |-> embedding_dim,
     news_self_att |-> SelfAttention(hp),
     news_att |-> AdditiveAttention(hp, 1),
     user_self_att |-> SelfAttention(hp),
     user_att |-> AdditiveAttention(hp, 3)]

\* nn.Embedding.__call__: every token id is replaced by its row.
Embedding(self, ids0) ==
    Bind(ids0, LAMBDA ids :
        IF ~ids.ok THEN ErrT
        ELSE Build(Append(ids.shape, self.embedding_dim),
                   LAMBDA idx :
                     WordEmbedding(At(ids, SubSeq(idx, 1, Len(idx) - 1)), idx[Len(idx)])))

\* FlattenItems that moves the item axis first: the rows come item by item
\* instead of instance by instance.
FlattenItems_ItemMajor(t, N, H, L) == View(Transpose(t, 0, 1), <<N * H, L>>)

\* history_input.view(N * H, L), pred_input.view(N * M, L)
FlattenItems(t, N, H, L) == View(t, <<N * H, L>>)

\* UnflattenItems with the two leading sizes exchanged.
UnflattenItems_Swapped(t, N, H) == Transpose(ViewInfer(t, H, N), 0, 1)

\* news_vectors.view(N, H, -1)
UnflattenItems(t, N, H) == ViewInfer(t, N, H)

\* NRMSModel.encode_news: the model after the call and the returned tensor.
EncodeNews(self, nid, news_input) ==
    Bind(Dropout(Embedding(self, news_input)), LAMBDA x :
    Bind(SelfAttentionForward(self.news_self_att, nid, x, x, x), LAMBDA sa :
    Bind(AdditiveAttentionForward(self.news_att, sa.out), LAMBDA pooled :
        [self |-> [self EXCEPT !.news_self_att = sa.self],
         created |-> sa.created,
         out |-> pooled.out])))

\* NRMSModel.encode_user: the model after the call, the returned tensor and
\* the intermediate tensors.
EncodeUser(self, nid, history_input) ==
    Bind(history_input.shape, LAMBDA NHL :
    Bind(FlattenItems(history_input, NHL[1], NHL[2], NHL[3]), LAMBDA flat :
    IF ~flat.ok
    THEN [self |-> self, created |-> 0, out |-> ErrT, flat |-> ErrT, news_vectors |-> ErrT]
    ELSE
    Bind(EncodeNews(self, nid, flat), LAMBDA en :
    Bind(UnflattenItems(en.out, NHL[1], NHL[2]), LAMBDA news_vectors :
    IF ~news_vectors.ok
    THEN [self |-> en.self, created |-> en.created, out |-> ErrT,
          flat |-> flat, news_vectors |-> ErrT]
    ELSE
    Bind(SelfAttentionForward(en.self.user_self_att, nid + en.created,
                              news_vectors, news_vectors, news_vectors), LAMBDA sa :
    Bind(AdditiveAttentionForward(self.user_att, sa.out), LAMBDA pooled :
        [self |-> [en.self EXCEPT !.user_self_att = sa.self],
         created |-> en.created + sa.created,
         out |-> pooled.out, flat |-> flat, news_vectors |-> news_vectors]))))))

\* NRMSModel.forward: the model after the call, the scores (or the exception)
\* and the intermediate tensors.
Forward(self, nid, his_input, pred_input) ==
    Bind(EncodeUser(self, nid, his_input), LAMBDA eu :
    IF ~eu.out.ok
    THEN [self |-> eu.self, created |-> eu.created, out |-> ErrT,
          user_vector |-> ErrT, flat |-> ErrT, news_vectors |-> ErrT]
    ELSE
    Bind(pred_input.shape, LAMBDA NML :
    Bind(FlattenItems(pred_input, NML[1], NML[2], NML[3]), LAMBDA flat :
    IF ~flat.ok
    THEN [self |-> eu.self, created |-> eu.created, out |-> ErrT,
          user_vector |-> eu.out, flat |-> ErrT, news_vectors |-> ErrT]
    ELSE
    Bind(EncodeNews(eu.self, nid + eu.created, flat), LAMBDA en :
    Bind(UnflattenItems(en.out, NML[1], NML[2]), LAMBDA news_vectors :
    Bind(SqueezeLast(MatMul(news_vectors, UnsqueezeLast(eu.out))), LAMBDA scores :
        [self |-> en.self, created |-> eu.created + en.created, out |-> scores,
         user_vector |-> eu.out, flat |-> flat, news_vectors |-> news_vectors]))))))

(* ------------------------------- state -------------------------------- *)
VARIABLES
    hparams,    \* the hyperparameters the modules were constructed with
    nextId,     \* the id of the next nn.Linear object to be created
    att,        \* a SelfAttention instance
    add,        \* an AdditiveAttention instance
    model,      \* an NRMSModel instance
    called,     \* forward has been called on att
    pc,         \* "idle", or "returned" when a call has ended and the caller
                \* has not yet taken its result
    call        \* the call that ended last: arguments, outcome, tensors

vars == <<hparams, nextId, att, add, model, called, pc, call>>

\* The hyperparameter sets of the model: two heads of width 1, one head of
\* width 2 (np.sqrt(head_dim) is then not 1).
HParams ==
    {[head_num |-> 2, head_dim |-> 1, attention_hidden_dim |-> 2],
     [head_num |-> 1, head_dim |-> 2, attention_hidden_dim |-> 1]}

\* A float tensor of shape s: the argument of a call (k tells the arguments
\* of one call apart).
Ramp(s, k) == Tensor(s, [i \in 1..Numel(s) |-> (k + 3 * i + i * i) % P])

Shapes3 ==
    {<<n, l, e>> : n \in 0..MaxBatch, l \in 0..MaxLen, e \in 1..MaxEmb}

\* The shapes of Q_seq, K_seq and V_seq of one call.
QKVShapes == {<<q, k, v>> \in Shapes3 \X Shapes3 \X Shapes3 : v = q \/ v = k}

\* What the caller sees of a tensor: its shape, or <<>> for an exception.
ShapeOf(t) == IF t.ok THEN t.shape ELSE <<>>

NoModel == [constructed |-> FALSE]

Init ==
    /\ hparams \in HParams
    /\ att = SelfAttention(hparams)
    /\ add = AdditiveAttention(hparams, 1)
    /\ nextId = 3
    /\ model = NoModel
    /\ called = FALSE
    /\ pc = "idle"
    /\ call = [op |-> "none"]

\* att(Q_seq, K_seq, V_seq)
CallSelfAttention ==
    /\ pc = "idle"
    /\ \E s \in QKVShapes :
       \E r \in {SelfAttentionForward(att, nextId, Ramp(s[1], 1), Ramp(s[2], 2), Ramp(s[3], 3))} :
             /\ att' = r.self
             /\ nextId' = nextId + r.created
             /\ call' = [op |-> "SelfAttention.forward",
                         Q_seq |-> s[1], K_seq |-> s[2], V_seq |-> s[3],
                         before |-> att, ok |-> r.out.ok, out |-> ShapeOf(r.out),
                         Q |-> ShapeOf(r.Q), K |-> ShapeOf(r.K), V |-> ShapeOf(r.V),
                         attn |-> IF r.out.ok THEN [shape |-> r.frac.shape, data |-> r.frac.data]
                                  ELSE [shape |-> <<>>, data |-> <<>>]]
    /\ called' = TRUE
    /\ pc' = "returned"
    /\ UNCHANGED <<hparams, add, model>>

\* add(x): x has the width the instance was constructed for, or another.
CallAdditiveAttention ==
    /\ pc = "idle"
    /\ \E s \in Shapes3 \cup {<<n, l, add.W.in_features>> : n \in 0..MaxBatch, l \in 0..MaxLen} :
       \E r \in {AdditiveAttentionForward(add, Ramp(s, 1))} :
             call' = [op |-> "AdditiveAttention.forward", x |-> s,
                      ok |-> r.out.ok, out |-> ShapeOf(r.out),
                      attn |-> IF r.out.ok THEN [shape |-> r.frac.shape, data |-> r.frac.data]
                               ELSE [shape |-> <<>>, data |-> <<>>]]
    /\ pc' = "returned"
    /\ UNCHANGED <<hparams, nextId, att, add, model, called>>

\* The caller takes the result (or handles the exception) of the last call.
Return ==
    /\ pc = "returned"
    /\ pc' = "idle"
    /\ call' = [op |-> "none"]
    /\ UNCHANGED <<hparams, nextId, att, add, model, called>>

Next == CallSelfAttention \/ CallAdditiveAttention \/ Return

Spec == Init /\ [][Next]_vars


(* ------------------------ properties of Spec -------------------------- *)
IsSelfAttention == pc = "returned" /\ call.op = "SelfAttention.forward"

IsAdditive == pc = "returned" /\ call.op = "AdditiveAttention.forward"

Initialized(self) == self.WQ # None

\* The fractions fr (a sequence of <<numerator, denominator>>) sum to 1.
SumIsOne(fr) ==
    IntSum([j \in 1..Len(fr) |->
              fr[j][1] * IntProd([k \in 1..Len(fr) |-> IF k = j THEN 1 ELSE fr[k][2]])])
    = IntProd([k \in 1..Len(fr) |-> fr[k][2]])

NonNegative(fr) == \A j \in 1..Len(fr) : fr[j][1] >= 0 /\ fr[j][2] > 0

\* C1: the projections of a SelfAttention instance are created exactly once,
\* during the first forward call: a step from the uninitialized instance that
\* is a call leaves it initialized and is the first call, and every step from
\* an initialized instance leaves WQ, WK and WV the same objects and creates
\* no new one.
C1_CreatedOnce ==
    [][IF Initialized(att)
       THEN att' = att /\ nextId' = nextId /\ called
       ELSE ~called /\ (called' => Initialized(att') /\ nextId' = nextId + 3)]_vars

\* A second call with the width of the first has succeeded and found the
\* projections present.
C1_Witness ==
    /\ IsSelfAttention
    /\ call.ok
    /\ Initialized(call.before)
    /\ att = call.before

\* C2: once the instance is initialized for width E, a forward call with an
\* input of another trailing size ends in an error and leaves the projections
\* as they were, sized to E.
C2_WidthDriftRaises ==
    (/\ IsSelfAttention
     /\ Initialized(call.before)
     /\ \E s \in {call.Q_seq, call.K_seq, call.V_seq} :
            s[3] # call.before.WQ.in_features)
    => /\ ~call.ok
       /\ att = call.before
       /\ att.WQ.in_features = call.before.WQ.in_features

\* A call whose three inputs all have another width than the instance's has
\* ended.
C2_Witness ==
    /\ IsSelfAttention
    /\ Initialized(call.before)
    /\ call.Q_seq = call.K_seq
    /\ call.Q_seq = call.V_seq
    /\ call.Q_seq[3] # call.before.WQ.in_features
    /\ call.Q_seq[1] > 0
    /\ call.Q_seq[2] > 0
    /\ ~call.ok

\* C3: a forward call whose Q_seq, K_seq and V_seq do not all have the same
\* batch size and the same length ends in an error (stated for the inputs
\* with no axis of size zero, which are the subject of C4).
C3_MismatchRaises ==
    (/\ IsSelfAttention
     /\ \A s \in {call.Q_seq, call.K_seq, call.V_seq} : s[1] > 0 /\ s[2] > 0
     /\ \E s \in {call.K_seq, call.V_seq} :
            s[1] # call.Q_seq[1] \/ s[2] # call.Q_seq[2])
    => ~call.ok

\* C4: a call with a zero-size batch or a zero-length sequence axis ends in an
\* error.
C4_DegenerateRaises ==
    /\ IsSelfAttention
       => ((\E s \in {call.Q_seq, call.K_seq, call.V_seq} : s[1] = 0 \/ s[2] = 0)
           => ~call.ok)
    /\ IsAdditive
       => ((call.x[1] = 0 \/ call.x[2] = 0) => ~call.ok)

\* C5: on three inputs of one shape [N, L, E], N >= 1, L >= 1, E the width of
\* the instance's first call, forward returns a tensor of shape
\* [N, L, head_num * head_dim]; the per-head Q, K and V have the shape
\* [N, head_num, L, head_dim] and the attention matrix [N, head_num, L, L].
C5_OutputShape ==
    (/\ IsSelfAttention
     /\ call.K_seq = call.Q_seq
     /\ call.V_seq = call.Q_seq
     /\ call.Q_seq[1] >= 1
     /\ call.Q_seq[2] >= 1
     /\ Initialized(call.before) => call.before.WQ.in_features = call.Q_seq[3])
    => LET N == call.Q_seq[1]
           L == call.Q_seq[2]
       IN  /\ call.ok
           /\ call.out = <<N, L, hparams.head_num * hparams.head_dim>>
           /\ call.Q = <<N, hparams.head_num, L, hparams.head_dim>>
           /\ call.K = call.Q
           /\ call.V = call.Q
           /\ call.attn.shape = <<N, hparams.head_num, L, L>>

\* A call on inputs of shape [2, 1, 1] has returned.
C5_Witness ==
    /\ IsSelfAttention
    /\ call.ok
    /\ call.Q_seq = <<2, 1, 1>>
    /\ call.K_seq = call.Q_seq
    /\ call.V_seq = call.Q_seq
    /\ call.out = <<2, 1, 2>>

\* C8: every row of the softmax-normalised attention matrix of
\* SelfAttention.forward has entries >= 0 that sum to 1, and the
\* softmax-normalised weights of AdditiveAttention.forward sum to 1 across the
\* length axis for every batch instance.
C8_SoftmaxSumsToOne ==
    /\ (IsSelfAttention /\ call.ok)
       => \A n \in 1..call.attn.shape[1], h \in 1..call.attn.shape[2],
             i \in 1..call.attn.shape[3] :
            LET row == [j \in 1..call.attn.shape[4] |->
                          At(call.attn, <<n - 1, h - 1, i - 1, j - 1>>)]
            IN  NonNegative(row) /\ SumIsOne(row)
    /\ (IsAdditive /\ call.ok)
       => \A b \in 1..call.attn.shape[1] :
            SumIsOne([l \in 1..call.attn.shape[2] |-> At(call.attn, <<b - 1, l - 1>>)])

\* C10: WQ, WK and WV are all absent or all present with one input width; the
\* first call sizes them from Q_seq alone, whether it then succeeds or raises.
C10_InitBeforeValidation ==
    /\ \/ att.WQ = None /\ att.WK = None /\ att.WV = None
       \/ /\ att.WQ # None /\ att.WK # None /\ att.WV # None
          /\ att.WK.in_features = att.WQ.in_features
          /\ att.WV.in_features = att.WQ.in_features
    /\ (IsSelfAttention /\ ~Initialized(call.before))
       => /\ Initialized(att)
          /\ att.WQ.in_features = call.Q_seq[3]
          /\ att.WK.in_features = call.Q_seq[3]
          /\ att.WV.in_features = call.Q_seq[3]

\* A first call has raised, on a K_seq narrower or wider than Q_seq, and has
\* left the instance initialized.
C10_Witness ==
    /\ IsSelfAttention
    /\ ~Initialized(call.before)
    /\ ~call.ok
    /\ call.K_seq[3] # call.Q_seq[3]
    /\ Initialized(att)
    /\ att.WK.in_features = call.Q_seq[3]

(* ------------------------ the NRMSModel machine ----------------------- *)
\* A tensor of token ids of shape s (k tells the arguments of one call apart).
Tokens(s, k) ==
    Tensor(s, [i \in 1..Numel(s) |-> (k + i + (i \div 2) + (i \div 4)) % VocabSize])

\* What the caller sees of a tensor: the tensor, or the exception.
Seen(t) == IF t.ok THEN t ELSE ErrT

InitM ==
    /\ hparams \in HParams
    /\ att = SelfAttention(hparams)
    /\ add = AdditiveAttention(hparams, 1)
    /\ \E e \in 1..MaxEmb : model = NRMSModel(hparams, e)
    /\ nextId = 5
    /\ called = FALSE
    /\ pc = "idle"
    /\ call = [op |-> "none"]

\* model.encode_news(news_input)
CallEncodeNews ==
    /\ pc = "idle"
    /\ \E B \in 0..MaxBatch, L \in 0..MaxSeq :
       \E news_input \in {Tokens(<<B, L>>, 0)} :
       \E r \in {EncodeNews(model, nextId, news_input)} :
         /\ model' = r.self
         /\ nextId' = nextId + r.created
         /\ call' = [op |-> "encode_news", news_input |-> news_input,
                     ok |-> r.out.ok, out |-> Seen(r.out)]
    /\ pc' = "returned"
    /\ UNCHANGED <<hparams, att, add, called>>

\* model.encode_user(history_input)
CallEncodeUser ==
    /\ pc = "idle"
    /\ \E N \in 0..MaxBatch, H \in 0..MaxHist, L \in 0..MaxSeq :
       \E history_input \in {Tokens(<<N, H, L>>, 0)} :
       \E r \in {EncodeUser(model, nextId, history_input)} :
         /\ model' = r.self
         /\ nextId' = nextId + r.created
         /\ call' = [op |-> "encode_user", history_input |-> history_input,
                     before |-> model,
                     ok |-> r.out.ok, out |-> Seen(r.out),
                     flat |-> Seen(r.flat), news_vectors |-> Seen(r.news_vectors)]
    /\ pc' = "returned"
    /\ UNCHANGED <<hparams, att, add, called>>

\* model(his_input, pred_input): the two inputs of one batch.
CallForward ==
    /\ pc = "idle"
    /\ \E N \in 0..MaxBatch, H \in 0..MaxHist, M \in 0..MaxCand, L \in 0..MaxSeq :
       \E his_input \in {Tokens(<<N, H, L>>, 0)}, pred_input \in {Tokens(<<N, M, L>>, 1)} :
       \E r \in {Forward(model, nextId, his_input, pred_input)} :
         /\ model' = r.self
         /\ nextId' = nextId + r.created
         /\ call' = [op |-> "forward", his_input |-> his_input, pred_input |-> pred_input,
                     ok |-> r.out.ok, out |-> Seen(r.out),
                     user_vector |-> Seen(r.user_vector),
                     flat |-> Seen(r.flat), news_vectors |-> Seen(r.news_vectors)]
    /\ pc' = "returned"
    /\ UNCHANGED <<hparams, att, add, called>>

NextM == CallEncodeNews \/ CallEncodeUser \/ CallForward \/ Return

SpecM == InitM /\ [][NextM]_vars

(* ------------------------ properties of SpecM ------------------------- *)
Returned(op) == pc = "returned" /\ call.op = op

feature_dim == hparams.head_num * hparams.head_dim

\* The item [b, h, :] of a tensor of token ids [N, H, L], as a batch of one.
Item(t, b, h) ==
    Tensor(<<1, t.shape[3]>>, [l \in 1..t.shape[3] |-> At(t, <<b, h, l - 1>>)])

\* The instance [b, :, :] of a tensor [N, H, L], as a batch of one.
Instance(t, b) ==
    Tensor(<<1, t.shape[2], t.shape[3]>>,
           [i \in 1..(t.shape[2] * t.shape[3]) |-> t.data[b * t.shape[2] * t.shape[3] + i]])

\* Row r of a matrix, and the vector [b, h, :] of a tensor of rank 3.
Row(t, r) == [f \in 1..t.shape[2] |-> At(t, <<r, f - 1>>)] \o <<>>

Vec(t, b, h) == [f \in 1..t.shape[3] |-> At(t, <<b, h, f - 1>>)] \o <<>>

Dot(u, v) == SumSeq([f \in 1..Len(u) |-> (u[f] * v[f]) % P])

\* The permutations of 0..(n - 1).
Perms(n) == {p \in [0..(n - 1) -> 0..(n - 1)] : \A i, j \in 0..(n - 1) : p[i] = p[j] => i = j}

\* t with the axis-1 entries of instance b permuted by p (t of rank 2 or 3).
PermuteRow(t, b, p) ==
    Tensor(t.shape, [i \in 1..Numel(t.shape) |->
        LET idx == Unflat(i - 1, t.shape)
        IN  IF idx[1] = b THEN At(t, [idx EXCEPT ![2] = p[idx[2]]]) ELSE t.data[i]])

\* C6: encode_news on [batch, seq_len] returns [batch, feature_dim] and
\* encode_user on [batch, hist_len, seq_len] returns [batch, feature_dim],
\* feature_dim = head_num * head_dim, for every batch, seq_len and hist_len
\* >= 1, whatever calls the model has served before.
C6_EncoderShapes ==
    /\ (/\ Returned("encode_news")
        /\ call.news_input.shape[1] >= 1
        /\ call.news_input.shape[2] >= 1)
       => /\ call.ok
          /\ call.out.shape = <<call.news_input.shape[1], feature_dim>>
    /\ (/\ Returned("encode_user")
        /\ \A k \in 1..3 : call.history_input.shape[k] >= 1)
       => /\ call.ok
          /\ call.out.shape = <<call.history_input.shape[1], feature_dim>>

\* encode_user has returned for a history of two items on a model whose user
\* encoder an earlier call had initialized.
C6_Witness ==
    /\ Returned("encode_user")
    /\ call.ok
    /\ call.history_input.shape = <<1, 2, 2>>
    /\ Initialized(call.before.user_self_att)
    /\ call.out.shape = <<1, feature_dim>>

\* C7: forward returns scores of shape [batch, cand_count]; scores[b, c] is the
\* dot product of the item vector of candidates[b, c, :] and the user vector
\* of history[b]; and permuting the candidates of one instance permutes the
\* scores of that instance the same way and changes no other score.
C7_Scores ==
    /\ (/\ Returned("forward")
        /\ \A k \in 1..2 : call.his_input.shape[k] >= 1
        /\ \A k \in 1..2 : call.pred_input.shape[k] >= 1)
       => call.ok
    /\ (Returned("forward") /\ call.ok)
       => LET N == call.pred_input.shape[1]
              M == call.pred_input.shape[2]
          IN  /\ call.out.shape = <<N, M>>
              /\ \A b \in 0..(N - 1), c \in 0..(M - 1) :
                   At(call.out, <<b, c>>)
                   = Dot(Row(EncodeNews(model, nextId, Item(call.pred_input, b, c)).out, 0),
                         Row(EncodeUser(model, nextId, Instance(call.his_input, b)).out, 0))
              /\ \A b \in 0..(N - 1) : \A p \in Perms(M) :
                   Forward(model, nextId, call.his_input,
                           PermuteRow(call.pred_input, b, p)).out
                   = PermuteRow(call.out, b, p)

\* forward has returned the scores of two candidates for each of two
\* instances, and the two scores of the first instance differ.
C7_Witness ==
    /\ Returned("forward")
    /\ call.ok
    /\ call.out.shape = <<2, 2>>
    /\ call.pred_input.shape[3] = 2
    /\ At(call.out, <<0, 0>>) # At(call.out, <<0, 1>>)

\* C9: row b * H + h of the flattened input is the item [b, h, :], and after
\* the reshape back the vector at [b, h, :] is what encode_news returns for
\* that item alone.
C9_FlattenKeepsItems ==
    (pc = "returned" /\ call.op \in {"encode_user", "forward"} /\ call.flat.ok)
    => LET input == IF call.op = "forward" THEN call.pred_input ELSE call.history_input
           N == input.shape[1]
           H == input.shape[2]
           L == input.shape[3]
       IN  /\ \A b \in 0..(N - 1), h \in 0..(H - 1), l \in 0..(L - 1) :
                At(call.flat, <<b * H + h, l>>) = At(input, <<b, h, l>>)
           /\ call.news_vectors.ok
              => \A b \in 0..(N - 1), h \in 0..(H - 1) :
                   Vec(call.news_vectors, b, h)
                   = Row(EncodeNews(model, nextId, Item(input, b, h)).out, 0)

\* encode_user has flattened and encoded a history of two instances of two
\* items each, and the items of an instance have different vectors.
C9_Witness ==
    /\ Returned("encode_user")
    /\ call.news_vectors.ok
    /\ call.history_input.shape = <<2, 2, 2>>
    /\ Vec(call.news_vectors, 0, 0) # Vec(call.news_vectors, 1, 0)
    /\ Vec(call.news_vectors, 0, 0) # Vec(call.news_vectors, 0, 1)

====
